---- MODULE Spec2Model ----
(***************************************************************************)
(* Model of the PDF conversion pipeline of pdf_to_md_converter.py:         *)
(* analyze_pdf, _get_tool_order, score_conversion and the strategy loop of *)
(* convert_pdf_to_markdown.                                                *)
(*                                                                         *)
(* A document is a sequence of pages; a page carries what analyze_pdf      *)
(* reads from it (length of its text, counts of near-horizontal and        *)
(* near-vertical line segments, its image rectangles).  A Markdown text is *)
(* represented by the six measurements score_conversion takes of it.       *)
(* Python floats are modelled by exact rationals [n, d] in lowest terms.   *)
(***************************************************************************)
EXTENDS Integers, Sequences, FiniteSets, TLC

VARIABLES
    caps,               \* module-level *_AVAILABLE flags
    accuracy_critical,  \* argument of convert_pdf_to_markdown
    doc,                \* the PDF behind pdf_path
    pc,                 \* position in convert_pdf_to_markdown
    analysis,           \* PDFAnalysis, or None
    tool_order,         \* _get_tool_order(analysis)
    idx,                \* position of the for loop in tool_order
    tools_tried,
    best_result,        \* (markdown_content, metadata) or None
    best_score,         \* ConversionScore or None
    attempts,           \* trace of the loop iterations (history)
    file,               \* the output file on disk
    result,             \* the returned (success, message, output_path) or None
    markdown_output,    \* argument of score_conversion
    score,              \* its ConversionScore
    table,              \* argument of _convert_table_to_markdown
    table_markdown,     \* the string it returns
    figures,            \* analysis.figures
    markdown_content,   \* the text of the best attempt, in step 3
    figure_blocks,      \* the figures processed in step 3
    pdf_conversion_status,  \* gui.py: the module-level status dict
    sys_stdout,         \* gui.py: what sys.stdout is bound to
    threads,            \* gui.py: the run_pdf_conversion threads started so far
    response            \* gui.py: what a /pdf_status request was answered

vars == <<caps, accuracy_critical, doc, pc, analysis, tool_order, idx, tools_tried,
          best_result, best_score, attempts, file, result, markdown_output, score,
          table, table_markdown, figures, markdown_content, figure_blocks,
          pdf_conversion_status, sys_stdout, threads, response>>

\* the variables of step 3 of convert_pdf_to_markdown
figVars == <<figures, markdown_content, figure_blocks>>

\* the variables of gui.py
guiVars == <<pdf_conversion_status, sys_stdout, threads, response>>

\* Python's None, for the variables and fields that hold a record otherwise
None == [is_none |-> TRUE]

\* the stream sys.stdout is bound to before any conversion of the GUI starts
Original == [capture |-> 0]

(***************************************************************************)
(* Bounds                                                                  *)
(***************************************************************************)
MaxPages == 2

\* longest row of a table handed to _convert_table_to_markdown
MaxCols == 2
\* rows of such a table, the header row included
MaxRows == 2

\* pages of a document whose figures are processed in step 3
MaxFigurePages == 3

\* pages of a document analysed for its column layout
MaxColumnPages == 6

\* /convert_pdf requests that start a conversion
MaxConversions == 2

(***************************************************************************)
(* Enums                                                                   *)
(***************************************************************************)
TEXT_HEAVY == "text_heavy"
TABLE_HEAVY == "table_heavy"
MIXED_LAYOUT == "mixed_layout"
IMAGE_HEAVY == "image_heavy"
SCANNED == "scanned"
DocumentType == {TEXT_HEAVY, TABLE_HEAVY, MIXED_LAYOUT, IMAGE_HEAVY, SCANNED}

PYMUPDF == "pymupdf"
PDFPLUMBER == "pdfplumber"
MARKER == "marker"
OCR_THEN_MARKER == "ocr_then_marker"
OCR_THEN_PYMUPDF == "ocr_then_pymupdf"
ExtractionTool == {PYMUPDF, PDFPLUMBER, MARKER, OCR_THEN_MARKER, OCR_THEN_PYMUPDF}

(***************************************************************************)
(* Rational arithmetic standing for the float arithmetic of the source     *)
(***************************************************************************)
RECURSIVE GCD(_, _)
GCD(a, b) == IF b = 0 THEN a ELSE GCD(b, a % b)

Abs(x) == IF x < 0 THEN -x ELSE x

Rat(n, d) ==
    LET g == GCD(Abs(n), d)
    IN  [n |-> n \div g, d |-> d \div g]

LCM(a, b) == (a \div GCD(a, b)) * b

RAdd(a, b) ==
    LET l == LCM(a.d, b.d)
    IN  Rat(a.n * (l \div a.d) + b.n * (l \div b.d), l)
RSub(a, b) == RAdd(a, [n |-> -b.n, d |-> b.d])
RMul(a, b) == Rat(a.n * b.n, a.d * b.d)
RLess(a, b) == a.n * b.d < b.n * a.d
RLeq(a, b) == a.n * b.d <= b.n * a.d
RMin(a, b) == IF RLess(b, a) THEN b ELSE a
RMax(a, b) == IF RLess(a, b) THEN b ELSE a
Zero == Rat(0, 1)
One == Rat(1, 1)

Range(s) == {s[i] : i \in 1..Len(s)}

RECURSIVE SumSeq(_)
SumSeq(s) == IF s = <<>> THEN 0 ELSE Head(s) + SumSeq(Tail(s))

(***************************************************************************)
(* Documents                                                               *)
(***************************************************************************)
Img(w, h) == [width |-> w, height |-> h]

\* a page of running text
TextPage == [chars |-> 120, h_lines |-> 0, v_lines |-> 0, images |-> <<>>]
\* a page of a scan: a few characters of text and eight page-sized images
ScanPage == [chars |-> 5, h_lines |-> 0, v_lines |-> 0,
             images |-> [i \in 1..8 |-> Img(600, 800)]]
\* exactly 100 characters and one figure
ThinPage == [chars |-> 100, h_lines |-> 0, v_lines |-> 0, images |-> <<Img(300, 200)>>]
\* text with three figures, an icon and two images at the size limit
FigurePage == [chars |-> 120, h_lines |-> 2, v_lines |-> 9,
               images |-> <<Img(200, 150), Img(40, 40), Img(300, 300),
                            Img(100, 100), Img(120, 400), Img(500, 100)>>]
\* text with a ruled table
TablePage == [chars |-> 120, h_lines |-> 6, v_lines |-> 6, images |-> <<>>]

PageSamples == {TextPage, ScanPage, ThinPage, FigurePage, TablePage}

Docs == UNION {[1..n -> PageSamples] : n \in 0..MaxPages}

\* a dense page of a book, and a ten-page book of such pages
BookPage == [chars |-> 500, h_lines |-> 0, v_lines |-> 0, images |-> <<>>]
BookDoc == [i \in 1..10 |-> BookPage]

\* a scanned slide deck with 24 page-sized images
DeckDoc == <<ScanPage, ScanPage, ScanPage>>

\* the documents handed to convert_pdf_to_markdown
Documents == Docs \cup {BookDoc, DeckDoc}

Capabilities == [PYMUPDF_AVAILABLE : BOOLEAN, PDFPLUMBER_AVAILABLE : BOOLEAN,
                 MARKER_AVAILABLE : BOOLEAN, TESSERACT_AVAILABLE : BOOLEAN]

(***************************************************************************)
(* analyze_pdf                                                             *)
(***************************************************************************)
\* images of a page recorded as figures (width > 100 and height > 100)
PageFigures(page) ==
    Cardinality({i \in 1..Len(page.images) :
                    page.images[i].width > 100 /\ page.images[i].height > 100})

\* h_lines > 5 and v_lines > 5
PageHasTable(page) == page.h_lines > 5 /\ page.v_lines > 5

TotalChars(d) == SumSeq([i \in 1..Len(d) |-> d[i].chars])
TotalTables(d) == Cardinality({i \in 1..Len(d) : PageHasTable(d[i])})
TotalFigures(d) == SumSeq([i \in 1..Len(d) |-> PageFigures(d[i])])

TextDensity(total_chars, page_count) ==
    IF page_count > 0 THEN Rat(total_chars, page_count) ELSE Zero

\* fault: the limit of 100 characters per page taken as inclusive
HasTextLayer_geq(text_density) == RLeq(Rat(100, 1), text_density)

\* has_text_layer = text_density > 100
HasTextLayer(text_density) == RLess(Rat(100, 1), text_density)

\* the if/elif chain classifying the document
ClassifyDocument(is_scanned, total_figures, total_tables, page_count) ==
    IF is_scanned THEN SCANNED
    ELSE IF 2 * total_figures > page_count THEN IMAGE_HEAVY
    ELSE IF 10 * total_tables > 3 * page_count THEN TABLE_HEAVY
    ELSE IF total_tables > 0 \/ total_figures > 0 THEN MIXED_LAYOUT
    ELSE TEXT_HEAVY

\* the tool chosen in the same chain, then the two overrides
RecommendedTool(doc_type, c) ==
    LET first ==
            IF doc_type = SCANNED
                THEN (IF c.MARKER_AVAILABLE THEN OCR_THEN_MARKER ELSE OCR_THEN_PYMUPDF)
            ELSE IF doc_type = IMAGE_HEAVY
                THEN (IF c.MARKER_AVAILABLE THEN MARKER ELSE PYMUPDF)
            ELSE IF doc_type = TABLE_HEAVY
                THEN (IF c.PDFPLUMBER_AVAILABLE THEN PDFPLUMBER ELSE MARKER)
            ELSE IF doc_type = MIXED_LAYOUT
                THEN (IF c.MARKER_AVAILABLE THEN MARKER ELSE PDFPLUMBER)
            ELSE (IF c.PYMUPDF_AVAILABLE THEN PYMUPDF ELSE MARKER)
        second ==
            IF first = MARKER /\ ~c.MARKER_AVAILABLE
                THEN (IF c.PDFPLUMBER_AVAILABLE THEN PDFPLUMBER ELSE PYMUPDF)
                ELSE first
    IN  IF second = PDFPLUMBER /\ ~c.PDFPLUMBER_AVAILABLE THEN PYMUPDF ELSE second

analyze_pdf(d, c) ==
    LET page_count == Len(d)
        total_chars == TotalChars(d)
        total_tables == TotalTables(d)
        total_figures == TotalFigures(d)
        text_density == TextDensity(total_chars, page_count)
        has_text_layer == HasTextLayer(text_density)
        is_scanned == ~has_text_layer /\ total_figures > 0
        doc_type == ClassifyDocument(is_scanned, total_figures, total_tables, page_count)
    IN  [has_text_layer |-> has_text_layer,
         page_count |-> page_count,
         text_density |-> text_density,
         table_count |-> total_tables,
         figure_count |-> total_figures,
         document_type |-> doc_type,
         recommended_tool |-> RecommendedTool(doc_type, c),
         total_chars |-> total_chars]

(***************************************************************************)
(* _get_tool_order                                                         *)
(***************************************************************************)
\* fault: the IMAGE_HEAVY order taken from the MIXED_LAYOUT branch
_get_tool_order_mixed(a) ==
    IF a.document_type = SCANNED THEN <<OCR_THEN_MARKER, OCR_THEN_PYMUPDF>>
    ELSE IF a.document_type = TEXT_HEAVY THEN <<PYMUPDF, MARKER, PDFPLUMBER>>
    ELSE IF a.document_type = TABLE_HEAVY THEN <<PDFPLUMBER, MARKER, PYMUPDF>>
    ELSE <<MARKER, PDFPLUMBER, PYMUPDF>>

_get_tool_order(a) ==
    IF a.document_type = SCANNED THEN <<OCR_THEN_MARKER, OCR_THEN_PYMUPDF>>
    ELSE IF a.document_type = TEXT_HEAVY THEN <<PYMUPDF, MARKER, PDFPLUMBER>>
    ELSE IF a.document_type = TABLE_HEAVY THEN <<PDFPLUMBER, MARKER, PYMUPDF>>
    ELSE IF a.document_type = IMAGE_HEAVY THEN <<MARKER, PYMUPDF, PDFPLUMBER>>
    ELSE <<MARKER, PDFPLUMBER, PYMUPDF>>

(***************************************************************************)
(* score_conversion                                                        *)
(*                                                                         *)
(* A Markdown text md is given by what score_conversion measures of it:    *)
(*   total_chars      len(markdown_output)                                 *)
(*   extracted_chars  len(re.sub(r'\s+', '', markdown_output))             *)
(*   headers          number of lines matching ^#{1,6}\s+.+$               *)
(*   table_markers    number of lines matching ^\|.+\|$                    *)
(*   garbage_chars    number of control characters                         *)
(*   repeated         number of runs matching (.)\1{5,}                    *)
(***************************************************************************)
Markdown(total, extracted, headers, markers, garbage, repeated) ==
    [total_chars |-> total, extracted_chars |-> extracted, headers |-> headers,
     table_markers |-> markers, garbage_chars |-> garbage, repeated |-> repeated]

\* the measurements some string has: a header or a table line takes at least
\* three characters, a run at least six; a header line holds a character that is
\* not white space, a table line two
WellFormedMd(md) ==
    /\ md.extracted_chars <= md.total_chars
    /\ md.headers + 2 * md.table_markers <= md.extracted_chars
    /\ md.garbage_chars <= md.total_chars
    /\ 3 * (md.headers + md.table_markers) <= md.total_chars
    /\ 6 * md.repeated <= md.total_chars

Completeness(a, md) ==
    LET expected_chars == Rat(4 * a.total_chars, 5)
    IN  IF RLess(Zero, expected_chars)
            THEN RMin(One, Rat(5 * md.extracted_chars, 4 * a.total_chars))
            ELSE Rat(1, 2)

ExpectedHeaders(a) == IF a.page_count \div 5 > 3 THEN a.page_count \div 5 ELSE 3

\* fault: the value of the else branch, 0.5, whatever the headers are
Structure_half(a, md) == Rat(1, 2)

Structure(a, md) ==
    IF ExpectedHeaders(a) > 0 THEN RMin(One, Rat(md.headers, ExpectedHeaders(a)))
    ELSE Rat(1, 2)

\* fault: every pipe row counted as a table
ExtractedTables_rows(md) == md.table_markers

ExtractedTables(md) == md.table_markers \div 3

TableIntegrity(a, md) ==
    IF a.table_count > 0 THEN RMin(One, Rat(ExtractedTables(md), a.table_count))
    ELSE One

\* garbage_ratio is assigned only in the branch total_chars > 0
GarbageRatioBound(md) == md.total_chars > 0

Readability(md) ==
    LET base == IF md.total_chars > 0
                    THEN RMax(Zero, RSub(One, Rat(10 * md.garbage_chars, md.total_chars)))
                    ELSE Zero
    IN  IF md.repeated > 10 THEN RMul(base, Rat(4, 5)) ELSE base

OverallScore(completeness, structure, table_integrity, readability) ==
    RAdd(RAdd(RAdd(RMul(completeness, Rat(35, 100)),
                   RMul(structure, Rat(20, 100))),
              RMul(table_integrity, Rat(25, 100))),
         RMul(readability, Rat(20, 100)))

Issues(a, md) ==
    (IF RLess(Completeness(a, md), Rat(1, 2)) THEN <<"text_missing">> ELSE <<>>)
    \o (IF md.headers < 2 THEN <<"few_headers">> ELSE <<>>)
    \o (IF a.table_count > 0 /\ ExtractedTables(md) < a.table_count
            THEN <<"tables_missing">> ELSE <<>>)
    \o (IF 100 * md.garbage_chars > md.total_chars THEN <<"garbage">> ELSE <<>>)
    \o (IF md.repeated > 10 THEN <<"ocr_artifacts">> ELSE <<>>)

\* raised: the read of garbage_ratio at "if garbage_ratio > 0.01" fails with
\* UnboundLocalError when the branch that assigns it was not taken
score_conversion(a, md) ==
    IF ~GarbageRatioBound(md)
        THEN [raised |-> TRUE]
        ELSE [raised |-> FALSE,
              overall_score |-> OverallScore(Completeness(a, md), Structure(a, md),
                                             TableIntegrity(a, md), Readability(md)),
              completeness |-> Completeness(a, md),
              structure |-> Structure(a, md),
              table_integrity |-> TableIntegrity(a, md),
              readability |-> Readability(md),
              issues |-> Issues(a, md)]

(***************************************************************************)
(* convert_pdf_to_markdown                                                 *)
(***************************************************************************)
\* what the extraction adapters return in the runs explored: the empty text,
\* three texts that differ in their share of control characters, a short one
MdEmpty == Markdown(0, 0, 0, 0, 0, 0)
Md80 == Markdown(400, 390, 3, 9, 40, 0)
Md90 == Markdown(400, 390, 3, 9, 20, 0)
Md95 == Markdown(400, 390, 3, 9, 10, 0)
MdShort == Markdown(60, 48, 1, 0, 0, 0)
\* clean running text without a heading line
MdPlain == Markdown(400, 390, 0, 0, 0, 0)
MarkdownSamples == {MdEmpty, Md80, Md90, Md95, MdShort, MdPlain}

Returned(success, message, output_path) ==
    [kind |-> "returned", success |-> success, message |-> message,
     output_path |-> output_path]
\* an exception that leaves convert_pdf_to_markdown
Raised(message) ==
    [kind |-> "raised", success |-> FALSE, message |-> message, output_path |-> "None"]

\* except Exception as e: return False, f"Conversion failed: {str(e)}", None
\* for an exception of analyze_pdf, cause being what raised it
AnalysisFailed(cause) ==
    [kind |-> "returned", success |-> FALSE, message |-> "Conversion failed",
     output_path |-> "None", cause |-> cause]

NoFile == [state |-> "absent"]

check_dependencies(c) ==
    LET missing ==
            (IF ~c.PYMUPDF_AVAILABLE THEN <<"pymupdf">> ELSE <<>>)
            \o (IF ~(c.PYMUPDF_AVAILABLE \/ c.PDFPLUMBER_AVAILABLE \/ c.MARKER_AVAILABLE)
                    THEN <<"(pymupdf or pdfplumber or marker-pdf)">> ELSE <<>>)
    IN  [deps_ok |-> Len(missing) = 0, missing |-> missing]

\* fault: the two thresholds exchanged
QualityThreshold_swapped(critical) == IF critical THEN Rat(85, 100) ELSE Rat(93, 100)

\* quality_threshold = 0.93 if accuracy_critical else 0.85
QualityThreshold(critical) == IF critical THEN Rat(93, 100) ELSE Rat(85, 100)

\* fault: OCR_THEN_PYMUPDF dispatched to the PyMuPDF adapter
Adapter_ocrPlain(tool, c) ==
    IF tool \in {PYMUPDF, OCR_THEN_PYMUPDF} /\ c.PYMUPDF_AVAILABLE THEN "convert_with_pymupdf"
    ELSE IF tool = PDFPLUMBER /\ c.PDFPLUMBER_AVAILABLE THEN "convert_with_pdfplumber"
    ELSE IF tool = MARKER /\ c.MARKER_AVAILABLE THEN "convert_with_marker"
    ELSE IF tool = OCR_THEN_MARKER /\ c.TESSERACT_AVAILABLE THEN "convert_with_ocr"
    ELSE "continue"

\* the if/elif chain that picks the adapter of a tool; "continue" is its else
Adapter(tool, c) ==
    IF tool = PYMUPDF /\ c.PYMUPDF_AVAILABLE THEN "convert_with_pymupdf"
    ELSE IF tool = PDFPLUMBER /\ c.PDFPLUMBER_AVAILABLE THEN "convert_with_pdfplumber"
    ELSE IF tool = MARKER /\ c.MARKER_AVAILABLE THEN "convert_with_marker"
    ELSE IF tool \in {OCR_THEN_MARKER, OCR_THEN_PYMUPDF} /\ c.TESSERACT_AVAILABLE
        THEN "convert_with_ocr"
    ELSE "continue"

\* metadata["extraction_tool"] as each adapter sets it
AdapterMetadata(adapter) ==
    [extraction_tool |->
        IF adapter = "convert_with_pymupdf" THEN "pymupdf"
        ELSE IF adapter = "convert_with_pdfplumber" THEN "pdfplumber"
        ELSE IF adapter = "convert_with_marker" THEN "marker"
        ELSE "ocr_pytesseract"]

\* fault: the first scored attempt is kept whatever follows
ReplacesBest_keepFirst(best, sc) == best = None

\* fault: an attempt that equals the best score replaces the best attempt
ReplacesBest_orEqual(best, sc) ==
    best = None \/ RLeq(best.overall_score, sc.overall_score)

\* fault: the comparison reversed, a lower score replaces the best attempt
ReplacesBest_lower(best, sc) ==
    best = None \/ RLess(sc.overall_score, best.overall_score)

\* if best_result is None or score.overall_score > best_score.overall_score
ReplacesBest(best, sc) ==
    best = None \/ RLess(best.overall_score, sc.overall_score)

\* fault: the loop never breaks
MeetsThreshold_never(sc, threshold) == FALSE

\* if score.overall_score >= quality_threshold: break
MeetsThreshold(sc, threshold) == RLeq(threshold, sc.overall_score)

\* fault: a best attempt below the threshold counts as no attempt at all
NoAttemptSucceeded_quality(best) ==
    best = None \/ ~MeetsThreshold(best_score, QualityThreshold(accuracy_critical))

\* if best_result is None: return False, "All conversion tools failed", None
NoAttemptSucceeded(best) == best = None

Attempt(tool, adapter, outcome, md, sc) ==
    [tool |-> tool, adapter |-> adapter, outcome |-> outcome, markdown |-> md, score |-> sc]

InLoop == pc = "loop" /\ idx <= Len(tool_order)
CurTool == tool_order[idx]

Init ==
    /\ caps \in Capabilities
    /\ accuracy_critical \in BOOLEAN
    /\ doc \in Documents
    /\ pc = "check_deps"
    /\ analysis = None
    /\ tool_order = <<>>
    /\ idx = 1
    /\ tools_tried = <<>>
    /\ best_result = None
    /\ best_score = None
    /\ attempts = <<>>
    /\ file = NoFile
    /\ result = None
    /\ markdown_output = None
    /\ score = None
    /\ table = <<>>
    /\ table_markdown = <<>>
    /\ figures = <<>>
    /\ markdown_content = <<>>
    /\ figure_blocks = <<>>
    /\ pdf_conversion_status = None
    /\ sys_stdout = Original
    /\ threads = <<>>
    /\ response = None

Return(r) ==
    /\ result' = r
    /\ pc' = "done"

\* deps_ok, missing = check_dependencies()
CheckDependencies ==
    /\ pc = "check_deps"
    /\ IF check_dependencies(caps).deps_ok
          THEN pc' = "validate" /\ UNCHANGED result
          ELSE Return(Returned(FALSE, "Missing required dependencies", "None"))
    /\ UNCHANGED <<guiVars, figVars, table, table_markdown, caps, accuracy_critical, doc, analysis, tool_order, idx, tools_tried,
                   best_result, best_score, attempts, file, markdown_output, score>>

\* os.path.exists(pdf_path), pdf_path.lower().endswith('.pdf')
ValidateInput ==
    /\ pc = "validate"
    /\ \E exists \in BOOLEAN, is_pdf \in BOOLEAN :
          IF ~exists THEN Return(Returned(FALSE, "PDF file not found", "None"))
          ELSE IF ~is_pdf THEN Return(Returned(FALSE, "File is not a PDF", "None"))
          ELSE pc' = "mkdir" /\ UNCHANGED result
    /\ UNCHANGED <<guiVars, figVars, table, table_markdown, caps, accuracy_critical, doc, analysis, tool_order, idx, tools_tried,
                   best_result, best_score, attempts, file, markdown_output, score>>

\* output_path.mkdir(parents=True, exist_ok=True), before the try block
MakeOutputDir ==
    /\ pc = "mkdir"
    /\ \E created \in BOOLEAN :
          IF created THEN pc' = "analyze" /\ UNCHANGED result
          ELSE Return(Raised("mkdir"))
    /\ UNCHANGED <<guiVars, figVars, table, table_markdown, caps, accuracy_critical, doc, analysis, tool_order, idx, tools_tried,
                   best_result, best_score, attempts, file, markdown_output, score>>

\* analysis = analyze_pdf(pdf_path); tool_order = _get_tool_order(analysis)
AnalyzePdf ==
    /\ pc = "analyze"
    /\ \E outcome \in {"ok", "open_fails", "page_fails"} :
          IF outcome = "ok"
             THEN /\ analysis' = analyze_pdf(doc, caps)
                  /\ tool_order' = _get_tool_order(analysis')
                  /\ pc' = "loop"
                  /\ UNCHANGED result
             ELSE /\ Return(AnalysisFailed(outcome))
                  /\ UNCHANGED <<analysis, tool_order>>
    /\ UNCHANGED <<guiVars, figVars, table, table_markdown, caps, accuracy_critical, doc, idx, tools_tried,
                   best_result, best_score, attempts, file, markdown_output, score>>

\* a loop iteration that ends at "continue" before any adapter is called: the
\* tool is in tools_tried already, or no branch of the dispatch chain takes it
IterateSkip ==
    /\ InLoop
    /\ IF CurTool \in Range(tools_tried)
          THEN UNCHANGED <<tools_tried, attempts>>
          ELSE /\ Adapter(CurTool, caps) = "continue"
               /\ tools_tried' = Append(tools_tried, CurTool)
               /\ attempts' = Append(attempts,
                                     Attempt(CurTool, "continue", "skipped", None, None))
    /\ idx' = idx + 1
    /\ UNCHANGED <<guiVars, figVars, table, table_markdown, caps, accuracy_critical, doc, pc, analysis, tool_order,
                   best_result, best_score, file, result, markdown_output, score>>

\* fault: the adapter's exception leaves the loop and reaches the outer handler
IterateRaise_propagates ==
    /\ InLoop
    /\ CurTool \notin Range(tools_tried)
    /\ Adapter(CurTool, caps) # "continue"
    /\ tools_tried' = Append(tools_tried, CurTool)
    /\ attempts' = Append(attempts,
                          Attempt(CurTool, Adapter(CurTool, caps), "raised", None, None))
    /\ Return(Returned(FALSE, "Conversion failed", "None"))
    /\ UNCHANGED <<guiVars, figVars, table, table_markdown, caps, accuracy_critical, doc, analysis, tool_order, idx,
                   best_result, best_score, file, markdown_output, score>>

\* fault: a tool whose adapter raised is tried again
IterateRaise_retry ==
    /\ InLoop
    /\ Adapter(CurTool, caps) # "continue"
    /\ tools_tried' = Append(tools_tried, CurTool)
    /\ attempts' = Append(attempts,
                          Attempt(CurTool, Adapter(CurTool, caps), "raised", None, None))
    /\ UNCHANGED <<guiVars, figVars, table, table_markdown, caps, accuracy_critical, doc, pc, analysis, tool_order, idx,
                   best_result, best_score, file, result, markdown_output, score>>

\* a loop iteration whose adapter raises: except Exception ... continue
IterateRaise ==
    /\ InLoop
    /\ CurTool \notin Range(tools_tried)
    /\ Adapter(CurTool, caps) # "continue"
    /\ tools_tried' = Append(tools_tried, CurTool)
    /\ attempts' = Append(attempts,
                          Attempt(CurTool, Adapter(CurTool, caps), "raised", None, None))
    /\ idx' = idx + 1
    /\ pc' = "loop"
    /\ UNCHANGED <<guiVars, figVars, table, table_markdown, caps, accuracy_critical, doc, analysis, tool_order,
                   best_result, best_score, file, result, markdown_output, score>>

\* a loop iteration whose adapter returns a text: scoring, best-so-far, threshold
IterateScore ==
    /\ InLoop
    /\ CurTool \notin Range(tools_tried)
    /\ Adapter(CurTool, caps) # "continue"
    /\ tools_tried' = Append(tools_tried, CurTool)
    /\ \E md \in MarkdownSamples :
          LET adapter == Adapter(CurTool, caps)
              sc == score_conversion(analysis, md)
          IN  IF sc.raised
                 THEN /\ attempts' = Append(attempts,
                                            Attempt(CurTool, adapter, "unscored", md, None))
                      /\ idx' = idx + 1
                      /\ pc' = "loop"
                      /\ UNCHANGED <<best_result, best_score>>
                 ELSE /\ attempts' = Append(attempts,
                                            Attempt(CurTool, adapter, "scored", md, sc))
                      /\ IF ReplacesBest(best_score, sc)
                            THEN /\ best_result' = [markdown_content |-> md,
                                                    metadata |-> AdapterMetadata(adapter)]
                                 /\ best_score' = sc
                            ELSE UNCHANGED <<best_result, best_score>>
                      /\ IF MeetsThreshold(sc, QualityThreshold(accuracy_critical))
                            THEN pc' = "after_loop" /\ UNCHANGED idx
                            ELSE pc' = "loop" /\ idx' = idx + 1
    /\ UNCHANGED <<guiVars, figVars, table, table_markdown, caps, accuracy_critical, doc, analysis, tool_order,
                   file, result, markdown_output, score>>

\* the for loop runs out of tools
LoopEnd ==
    /\ pc = "loop"
    /\ idx > Len(tool_order)
    /\ pc' = "after_loop"
    /\ UNCHANGED <<guiVars, figVars, table, table_markdown, caps, accuracy_critical, doc, analysis, tool_order, idx, tools_tried,
                   best_result, best_score, attempts, file, result, markdown_output, score>>

\* fault: no test of best_result, an empty text is written instead
ReturnAllFailed_asSuccess ==
    /\ pc = "after_loop"
    /\ best_result = None
    /\ file' = [state |-> "complete", content |-> [markdown_content |-> MdEmpty]]
    /\ Return(Returned(TRUE, "Successfully converted", "filepath"))
    /\ UNCHANGED <<guiVars, figVars, table, table_markdown, caps, accuracy_critical, doc, analysis, tool_order, idx, tools_tried,
                   best_result, best_score, attempts, markdown_output, score>>

\* if best_result is None: return False, "All conversion tools failed", None
ReturnAllFailed ==
    /\ pc = "after_loop"
    /\ NoAttemptSucceeded(best_result)
    /\ Return(Returned(FALSE, "All conversion tools failed", "None"))
    /\ UNCHANGED <<guiVars, figVars, table, table_markdown, caps, accuracy_critical, doc, analysis, tool_order, idx, tools_tried,
                   best_result, best_score, attempts, file, markdown_output, score>>

\* the number of figures step 3 processes: len(analysis.figures[:20]), where
\* analysis.figures holds one entry per figure counted in figure_count
ProcessedFigures(n) == IF n > 20 THEN 20 ELSE n

\* the content written: frontmatter fields, the body, and the number of figure
\* blocks appended to the body under "## Figures"
FinalContent ==
    [markdown_content |-> best_result.markdown_content,
     extraction_confidence |-> best_score.overall_score,
     extraction_tool |-> IF Len(tools_tried) > 0 THEN tools_tried[Len(tools_tried)]
                         ELSE "unknown",
     figures_extracted |-> analysis.figure_count,
     figure_blocks |-> ProcessedFigures(analysis.figure_count),
     content_type |-> analysis.document_type]

\* steps 3 to 6 up to and including open(filepath, 'w') raise: no file exists
FinishRaisesBeforeWrite ==
    /\ pc = "after_loop"
    /\ ~NoAttemptSucceeded(best_result)
    /\ Return(Returned(FALSE, "Conversion failed", "None"))
    /\ UNCHANGED <<guiVars, figVars, table, table_markdown, caps, accuracy_critical, doc, analysis, tool_order, idx, tools_tried,
                   best_result, best_score, attempts, file, markdown_output, score>>

\* open(filepath, 'w') has created the file and f.write or the close raises
FinishWriteRaises ==
    /\ pc = "after_loop"
    /\ ~NoAttemptSucceeded(best_result)
    /\ file' = [state |-> "partial"]
    /\ Return(Returned(FALSE, "Conversion failed", "None"))
    /\ UNCHANGED <<guiVars, figVars, table, table_markdown, caps, accuracy_critical, doc, analysis, tool_order, idx, tools_tried,
                   best_result, best_score, attempts, markdown_output, score>>

\* the file is written: return True, "Successfully converted to: ...", str(filepath)
FinishSuccess ==
    /\ pc = "after_loop"
    /\ ~NoAttemptSucceeded(best_result)
    /\ file' = [state |-> "complete", content |-> FinalContent]
    /\ Return(Returned(TRUE, "Successfully converted", "filepath"))
    /\ UNCHANGED <<guiVars, figVars, table, table_markdown, caps, accuracy_critical, doc, analysis, tool_order, idx, tools_tried,
                   best_result, best_score, attempts, markdown_output, score>>

Next ==
    \/ CheckDependencies
    \/ ValidateInput
    \/ MakeOutputDir
    \/ AnalyzePdf
    \/ IterateSkip
    \/ IterateRaise
    \/ IterateScore
    \/ LoopEnd
    \/ ReturnAllFailed
    \/ FinishRaisesBeforeWrite
    \/ FinishWriteRaises
    \/ FinishSuccess

Spec == Init /\ [][Next]_vars

(***************************************************************************)
(* score_conversion on its own: every analysis of a document of Docs or of *)
(* a uniform document of 20 or 25 pages, against every text of MdSpace     *)
(***************************************************************************)
AllCaps == [PYMUPDF_AVAILABLE |-> TRUE, PDFPLUMBER_AVAILABLE |-> TRUE,
            MARKER_AVAILABLE |-> TRUE, TESSERACT_AVAILABLE |-> TRUE]

ScoreDocs ==
    Docs \cup {[i \in 1..n |-> p] : n \in {20, 25}, p \in {TextPage, TablePage, ThinPage}}

MdSpace ==
    {md \in [total_chars : {0, 1, 40, 400}, extracted_chars : {0, 1, 30, 390},
             headers : {0, 1, 2, 3, 5}, table_markers : {0, 2, 3, 75},
             garbage_chars : {0, 1, 4, 40}, repeated : {0, 11}] : WellFormedMd(md)}

InitScore ==
    /\ caps = AllCaps
    /\ accuracy_critical = FALSE
    /\ doc \in ScoreDocs
    /\ pc = "score"
    /\ analysis = analyze_pdf(doc, caps)
    /\ tool_order = <<>>
    /\ idx = 1
    /\ tools_tried = <<>>
    /\ best_result = None
    /\ best_score = None
    /\ attempts = <<>>
    /\ file = NoFile
    /\ result = None
    /\ markdown_output \in MdSpace
    /\ score = None
    /\ table = <<>>
    /\ table_markdown = <<>>
    /\ figures = <<>>
    /\ markdown_content = <<>>
    /\ figure_blocks = <<>>
    /\ pdf_conversion_status = None
    /\ sys_stdout = Original
    /\ threads = <<>>
    /\ response = None

\* score = score_conversion(analysis, markdown_content)
ScoreConversion ==
    /\ pc = "score"
    /\ score' = score_conversion(analysis, markdown_output)
    /\ pc' = "scored"
    /\ UNCHANGED <<guiVars, figVars, table, table_markdown, caps, accuracy_critical, doc, analysis, tool_order, idx, tools_tried,
                   best_result, best_score, attempts, file, result, markdown_output>>

NextScore == ScoreConversion

SpecScore == InitScore /\ [][NextScore]_vars

(***************************************************************************)
(* _convert_table_to_markdown                                              *)
(*                                                                         *)
(* A string is a sequence of one-character strings.  A cell of a table is  *)
(* None or Text(s) for a string s; a row is a sequence of cells, a table a *)
(* sequence of rows.                                                       *)
(***************************************************************************)
Text(s) == [is_none |-> FALSE, chars |-> s]

\* str.replace(old, new) for a one-character old
RECURSIVE Replace(_, _, _)
Replace(s, old, new) ==
    IF s = <<>> THEN <<>>
    ELSE (IF Head(s) = old THEN new ELSE <<Head(s)>>) \o Replace(Tail(s), old, new)

Whitespace == {" ", "\n", "\t", "\r"}

RECURSIVE LStrip(_)
LStrip(s) ==
    IF s # <<>> /\ Head(s) \in Whitespace THEN LStrip(Tail(s)) ELSE s

RECURSIVE RStrip(_)
RStrip(s) ==
    IF s # <<>> /\ s[Len(s)] \in Whitespace THEN RStrip(SubSeq(s, 1, Len(s) - 1)) ELSE s

\* str.strip()
Strip(s) == RStrip(LStrip(s))

\* sep.join(parts)
RECURSIVE Join(_, _)
Join(parts, sep) ==
    IF parts = <<>> THEN <<>>
    ELSE IF Len(parts) = 1 THEN parts[1]
    ELSE parts[1] \o sep \o Join(Tail(parts), sep)

\* fault: the pipes of a cell are left as they are
CleanCell_noEscape(cell) ==
    IF cell = None THEN <<>>
    ELSE Strip(Replace(cell.chars, "\n", <<" ">>))

\* "" for None, else str(cell).replace("\n", " ").replace("|", "\\|").strip()
CleanCell(cell) ==
    IF cell = None THEN <<>>
    ELSE Strip(Replace(Replace(cell.chars, "\n", <<" ">>), "|", <<"\\", "|">>))

\* "| " + " | ".join(cells) + " |"
TableLine(cells) == <<"|", " ">> \o Join(cells, <<" ", "|", " ">>) \o <<" ", "|">>

_convert_table_to_markdown(t) ==
    IF t = <<>> THEN <<>>
    ELSE
        LET cleaned_table ==
                [r \in 1..Len(t) |-> [c \in 1..Len(t[r]) |-> CleanCell(t[r][c])]]
            header == cleaned_table[1]
            \* while len(row) < len(header): row.append("")
            Padded(row) ==
                IF Len(row) < Len(header)
                    THEN row \o [i \in 1..(Len(header) - Len(row)) |-> <<>>]
                    ELSE row
            lines ==
                <<TableLine(header),
                  TableLine([i \in 1..Len(header) |-> <<"-", "-", "-">>])>>
                \o [r \in 1..(Len(t) - 1) |->
                        TableLine(SubSeq(Padded(cleaned_table[r + 1]), 1, Len(header)))]
        IN  Join(lines, <<"\n">>)

\* cells as pdfplumber's extract_tables gives them: None, a text with a pipe and a
\* line break, a text of a backslash and a pipe between white space
CellSamples ==
    {None,
     Text(<<"2", "|", "3", "\n", "4">>),
     Text(<<" ", "\\", "|", "\n">>)}

Rows == UNION {[1..n -> CellSamples] : n \in 0..MaxCols}

\* the empty table, and tables of a header row and data rows
Tables == UNION {[1..n -> Rows] : n \in 0..MaxRows}

InitTable ==
    /\ caps = AllCaps
    /\ accuracy_critical = FALSE
    /\ doc = <<>>
    /\ pc = "table"
    /\ analysis = None
    /\ tool_order = <<>>
    /\ idx = 1
    /\ tools_tried = <<>>
    /\ best_result = None
    /\ best_score = None
    /\ attempts = <<>>
    /\ file = NoFile
    /\ result = None
    /\ markdown_output = None
    /\ score = None
    /\ table \in Tables
    /\ table_markdown = <<>>
    /\ figures = <<>>
    /\ markdown_content = <<>>
    /\ figure_blocks = <<>>
    /\ pdf_conversion_status = None
    /\ sys_stdout = Original
    /\ threads = <<>>
    /\ response = None

\* md_table = _convert_table_to_markdown(table)
ConvertTable ==
    /\ pc = "table"
    /\ table_markdown' = _convert_table_to_markdown(table)
    /\ pc' = "rendered"
    /\ UNCHANGED <<caps, accuracy_critical, doc, analysis, tool_order, idx, tools_tried,
                   best_result, best_score, attempts, file, result, markdown_output,
                   score, table, figVars, guiVars>>

NextTable == ConvertTable

SpecTable == InitTable /\ [][NextTable]_vars

(***************************************************************************)
(* extract_figure_as_text and step 3 of convert_pdf_to_markdown            *)
(*                                                                         *)
(* For this step a page of the document is given by whether it holds a     *)
(* figure and by the caption line printed on it, if any.  The text handed  *)
(* to extract_figure_as_text is given by its caption lines, in the order   *)
(* of the text; a reference "fig_<n>" is given by the number n.            *)
(***************************************************************************)
Caption(kind, number, title) ==
    [is_none |-> FALSE, kind |-> kind, number |-> number, title |-> title]

CaptionSamples ==
    {None, Caption("Figure", 3, "Revenue by quarter"), Caption("Chart", 7, "Costs")}

FigurePageSamples == [has_figure : BOOLEAN, caption : CaptionSamples]

FigureDocs == UNION {[1..n -> FigurePageSamples] : n \in 1..MaxFigurePages}

\* figures_info: one FigureInfo per figure, page numbers from 0, in page order
FiguresOf(d) ==
    LET pages == SelectSeq([i \in 1..Len(d) |-> i], LAMBDA i : d[i].has_figure)
    IN  [k \in 1..Len(pages) |->
            [page |-> pages[k] - 1, fig_type |-> "image", confidence |-> Rat(7, 10)]]

\* the caption lines of the text an adapter returns for the document
TextOf(d) ==
    LET pages == SelectSeq([i \in 1..Len(d) |-> i], LAMBDA i : d[i].caption # None)
    IN  [k \in 1..Len(pages) |-> d[pages[k]].caption]

\* re.search of the two patterns in turn: the first line of the text that matches
\* (?:Figure|Fig\.?)..., else the first that matches (?:Chart|Graph|Diagram)...
SearchCaption(page_content) ==
    LET first(kind) ==
            LET at == {i \in 1..Len(page_content) : page_content[i].kind = kind}
            IN  IF at = {} THEN None
                ELSE page_content[CHOOSE i \in at : \A j \in at : i <= j]
    IN  IF first("Figure") # None THEN first("Figure") ELSE first("Chart")

extract_figure_as_text(figure_info, page_content) ==
    LET match == SearchCaption(page_content)
    IN  [ref |-> IF match # None THEN match.number ELSE figure_info.page + 1,
         page |-> figure_info.page + 1,
         fig_type |-> figure_info.fig_type,
         confidence |-> figure_info.confidence,
         title |-> IF match # None THEN match.title ELSE "Untitled Figure"]

InitFigures ==
    /\ caps = AllCaps
    /\ accuracy_critical = FALSE
    /\ doc \in FigureDocs
    /\ pc = "figures"
    /\ analysis = None
    /\ tool_order = <<>>
    /\ idx = 1
    /\ tools_tried = <<>>
    /\ best_result = None
    /\ best_score = None
    /\ attempts = <<>>
    /\ file = NoFile
    /\ result = None
    /\ markdown_output = None
    /\ score = None
    /\ table = <<>>
    /\ table_markdown = <<>>
    /\ figures = FiguresOf(doc)
    /\ markdown_content = TextOf(doc)
    /\ figure_blocks = <<>>
    /\ pdf_conversion_status = None
    /\ sys_stdout = Original
    /\ threads = <<>>
    /\ response = None

\* for fig_info in analysis.figures[:20]:
\*     figure = extract_figure_as_text(pdf_path, fig_info, markdown_content)
ProcessFigures ==
    /\ pc = "figures"
    /\ figure_blocks' =
          [i \in 1..ProcessedFigures(Len(figures)) |->
              extract_figure_as_text(figures[i], markdown_content)]
    /\ pc' = "figures_done"
    /\ UNCHANGED <<caps, accuracy_critical, doc, analysis, tool_order, idx, tools_tried,
                   best_result, best_score, attempts, file, result, markdown_output,
                   score, table, table_markdown, figures, markdown_content,
                   guiVars>>

NextFigures == ProcessFigures

SpecFigures == InitFigures /\ [][NextFigures]_vars

(***************************************************************************)
(* analyze_pdf: sample_pages and the multi-column test                     *)
(*                                                                         *)
(* For this part a page is the sequence of the bounding boxes of its text  *)
(* blocks, in the order of page.get_text("dict").                          *)
(***************************************************************************)
BBox(x0, y0, x1, y1) == <<x0, y0, x1, y1>>

\* three blocks one below the other
OneColumnPage == <<BBox(50, 50, 550, 200), BBox(50, 220, 550, 400), BBox(50, 420, 550, 700)>>
\* two blocks side by side, nothing else
TwoBlockPage == <<BBox(50, 50, 280, 700), BBox(340, 50, 560, 700)>>
\* a title above two columns
TwoColumnPage == <<BBox(50, 50, 550, 90), BBox(50, 100, 280, 700), BBox(340, 100, 560, 700)>>
\* three columns
ThreeColumnPage == <<BBox(40, 50, 180, 700), BBox(240, 50, 380, 700), BBox(440, 50, 580, 700)>>

ColumnPageSamples == {OneColumnPage, TwoBlockPage, TwoColumnPage, ThreeColumnPage}

ColumnDocs == UNION {[1..n -> ColumnPageSamples] : n \in 1..MaxColumnPages}

\* the indices 0, page_count // 4, page_count // 2, 3 * page_count // 4 and
\* page_count - 1, as a set, those not below page_count dropped
SamplePages(page_count) ==
    {p \in {0, page_count \div 4, page_count \div 2, (3 * page_count) \div 4,
            page_count - 1} : p < page_count}

\* y_overlap and x_separate of two text blocks
YOverlap(b1, b2) == b1[2] < b2[4] /\ b2[2] < b1[4]
XSeparate(b1, b2) == b1[3] < b2[1] - 50 \/ b2[3] < b1[1] - 50

\* what the two nested loops add to multi_column_pages for one sampled page: the
\* break leaves the inner loop only, so every block that has a later block beside
\* it adds one
PageMultiColumn(text_blocks) ==
    IF Len(text_blocks) > 2
        THEN Cardinality({i \in 1..Len(text_blocks) :
                \E j \in (i + 1)..Len(text_blocks) :
                    YOverlap(text_blocks[i], text_blocks[j])
                    /\ XSeparate(text_blocks[i], text_blocks[j])})
        ELSE 0

MultiColumnPages(d) ==
    SumSeq([i \in 1..Len(d) |->
               IF (i - 1) \in SamplePages(Len(d)) THEN PageMultiColumn(d[i]) ELSE 0])

\* is_multi_column = multi_column_pages > len(sample_pages) * 0.3
IsMultiColumn(multi_column_pages, sample_pages) ==
    10 * multi_column_pages > 3 * Cardinality(sample_pages)

InitColumns ==
    /\ caps = AllCaps
    /\ accuracy_critical = FALSE
    /\ doc \in ColumnDocs
    /\ pc = "analyze_columns"
    /\ analysis = None
    /\ tool_order = <<>>
    /\ idx = 1
    /\ tools_tried = <<>>
    /\ best_result = None
    /\ best_score = None
    /\ attempts = <<>>
    /\ file = NoFile
    /\ result = None
    /\ markdown_output = None
    /\ score = None
    /\ table = <<>>
    /\ table_markdown = <<>>
    /\ figures = <<>>
    /\ markdown_content = <<>>
    /\ figure_blocks = <<>>
    /\ pdf_conversion_status = None
    /\ sys_stdout = Original
    /\ threads = <<>>
    /\ response = None

\* the part of analyze_pdf that sets is_multi_column; sample_pages and the local
\* multi_column_pages are kept beside it
AnalyzeColumns ==
    /\ pc = "analyze_columns"
    /\ analysis' = [page_count |-> Len(doc),
                    sample_pages |-> SamplePages(Len(doc)),
                    multi_column_pages |-> MultiColumnPages(doc),
                    is_multi_column |->
                        IsMultiColumn(MultiColumnPages(doc), SamplePages(Len(doc)))]
    /\ pc' = "columns_done"
    /\ UNCHANGED <<caps, accuracy_critical, doc, tool_order, idx, tools_tried,
                   best_result, best_score, attempts, file, result, markdown_output,
                   score, table, table_markdown, figVars, guiVars>>

NextColumns == AnalyzeColumns

SpecColumns == InitColumns /\ [][NextColumns]_vars

(***************************************************************************)
(* gui.py: /convert_pdf, run_pdf_conversion, /pdf_status                   *)
(*                                                                         *)
(* threads[t] is the thread started by the t-th accepted /convert_pdf      *)
(* request; its statements are taken one at a time, interleaved with those *)
(* of the other threads and with the requests.  The 'progress' list of the *)
(* status is left out.                                                     *)
(***************************************************************************)
\* the PDFOutputCapture object of thread t
PDFOutputCapture(t) == [capture |-> t]

\* what convert_pdf_to_markdown gives thread t: a triple, or an exception
ConversionOk(t) ==
    [raised |-> FALSE, success |-> TRUE,
     message |-> [is_none |-> FALSE, text |-> "Successfully converted", of |-> t],
     output_path |-> [is_none |-> FALSE, of |-> t]]
ConversionFailed(t) ==
    [raised |-> FALSE, success |-> FALSE,
     message |-> [is_none |-> FALSE, text |-> "failed", of |-> t],
     output_path |-> None]
ConversionRaised(t) ==
    [raised |-> TRUE, message |-> [is_none |-> FALSE, text |-> "exception", of |-> t]]
ConversionOutcomes(t) == {ConversionOk(t), ConversionFailed(t), ConversionRaised(t)}

\* the dict /convert_pdf binds pdf_conversion_status to
StatusReset ==
    [running |-> TRUE, completed |-> FALSE, success |-> FALSE,
     output_file |-> None, error |-> None]

\* the module-level initial value of pdf_conversion_status
StatusInitial == [StatusReset EXCEPT !.running = FALSE]

NewThread == [pc |-> "save_stdout", old_stdout |-> None, returned |-> None]

InitGui ==
    /\ caps = AllCaps
    /\ accuracy_critical = FALSE
    /\ doc = <<>>
    /\ pc = "gui"
    /\ analysis = None
    /\ tool_order = <<>>
    /\ idx = 1
    /\ tools_tried = <<>>
    /\ best_result = None
    /\ best_score = None
    /\ attempts = <<>>
    /\ file = NoFile
    /\ result = None
    /\ markdown_output = None
    /\ score = None
    /\ table = <<>>
    /\ table_markdown = <<>>
    /\ figures = <<>>
    /\ markdown_content = <<>>
    /\ figure_blocks = <<>>
    /\ pdf_conversion_status = StatusInitial
    /\ sys_stdout = Original
    /\ threads = <<>>
    /\ response = None

pdfVars == <<caps, accuracy_critical, doc, pc, analysis, tool_order, idx, tools_tried,
             best_result, best_score, attempts, file, result, markdown_output, score,
             table, table_markdown, figVars>>

\* POST /convert_pdf: a request that fails a check is answered 400 and changes
\* nothing; otherwise the status is reset and a thread is started, whether or not
\* an earlier conversion is still running
ConvertPdf ==
    /\ pc = "gui"
    /\ Len(threads) < MaxConversions
    /\ \E valid \in BOOLEAN :
          IF valid
             THEN /\ pdf_conversion_status' = StatusReset
                  /\ threads' = Append(threads, NewThread)
             ELSE UNCHANGED <<pdf_conversion_status, threads>>
    /\ UNCHANGED <<pdfVars, sys_stdout, response>>

\* GET /pdf_status: jsonify(pdf_conversion_status); 'latest' notes which request
\* was the most recent one when the answer was made
PdfStatus ==
    /\ pc = "gui"
    /\ response' = [status |-> pdf_conversion_status, latest |-> Len(threads)]
    /\ UNCHANGED <<pdfVars, pdf_conversion_status, sys_stdout, threads>>

At(t, where) == t \in 1..Len(threads) /\ threads[t].pc = where
Goto(t, where) == threads' = [threads EXCEPT ![t].pc = where]

\* old_stdout = sys.stdout
SaveStdout(t) ==
    /\ At(t, "save_stdout")
    /\ threads' = [threads EXCEPT ![t].pc = "install", ![t].old_stdout = sys_stdout]
    /\ UNCHANGED <<pdfVars, pdf_conversion_status, sys_stdout, response>>

\* sys.stdout = PDFOutputCapture()
InstallCapture(t) ==
    /\ At(t, "install")
    /\ sys_stdout' = PDFOutputCapture(t)
    /\ Goto(t, "convert")
    /\ UNCHANGED <<pdfVars, pdf_conversion_status, response>>

\* success, message, output_path = convert_pdf_to_markdown(...), which returns a
\* triple or raises
RunConversion(t) ==
    /\ At(t, "convert")
    /\ \E r \in ConversionOutcomes(t) :
          threads' = [threads EXCEPT ![t].returned = r,
                                     ![t].pc = IF r.raised THEN "except_error"
                                               ELSE "restore"]
    /\ UNCHANGED <<pdfVars, pdf_conversion_status, sys_stdout, response>>

\* sys.stdout = old_stdout
RestoreStdout(t) ==
    /\ At(t, "restore")
    /\ sys_stdout' = threads[t].old_stdout
    /\ Goto(t, "set_success")
    /\ UNCHANGED <<pdfVars, pdf_conversion_status, response>>

\* pdf_conversion_status['success'] = success
SetSuccess(t) ==
    /\ At(t, "set_success")
    /\ pdf_conversion_status' =
          [pdf_conversion_status EXCEPT !.success = threads[t].returned.success]
    /\ Goto(t, "set_output_file")
    /\ UNCHANGED <<pdfVars, sys_stdout, response>>

\* pdf_conversion_status['output_file'] = output_path; if not success: ...
SetOutputFile(t) ==
    /\ At(t, "set_output_file")
    /\ pdf_conversion_status' =
          [pdf_conversion_status EXCEPT !.output_file = threads[t].returned.output_path]
    /\ Goto(t, IF threads[t].returned.success THEN "set_completed" ELSE "set_error")
    /\ UNCHANGED <<pdfVars, sys_stdout, response>>

\* pdf_conversion_status['error'] = message
SetError(t) ==
    /\ At(t, "set_error")
    /\ pdf_conversion_status' =
          [pdf_conversion_status EXCEPT !.error = threads[t].returned.message]
    /\ Goto(t, "set_completed")
    /\ UNCHANGED <<pdfVars, sys_stdout, response>>

\* pdf_conversion_status['completed'] = True
SetCompleted(t) ==
    /\ At(t, "set_completed")
    /\ pdf_conversion_status' = [pdf_conversion_status EXCEPT !.completed = TRUE]
    /\ Goto(t, "set_running")
    /\ UNCHANGED <<pdfVars, sys_stdout, response>>

\* pdf_conversion_status['running'] = False
SetRunning(t) ==
    /\ At(t, "set_running")
    /\ pdf_conversion_status' = [pdf_conversion_status EXCEPT !.running = FALSE]
    /\ Goto(t, "finished")
    /\ UNCHANGED <<pdfVars, sys_stdout, response>>

\* except Exception as e: ...['error'] = str(e)
ExceptError(t) ==
    /\ At(t, "except_error")
    /\ pdf_conversion_status' =
          [pdf_conversion_status EXCEPT !.error = threads[t].returned.message]
    /\ Goto(t, "except_running")
    /\ UNCHANGED <<pdfVars, sys_stdout, response>>

\* ...['running'] = False
ExceptRunning(t) ==
    /\ At(t, "except_running")
    /\ pdf_conversion_status' = [pdf_conversion_status EXCEPT !.running = FALSE]
    /\ Goto(t, "except_completed")
    /\ UNCHANGED <<pdfVars, sys_stdout, response>>

\* ...['completed'] = True
ExceptCompleted(t) ==
    /\ At(t, "except_completed")
    /\ pdf_conversion_status' = [pdf_conversion_status EXCEPT !.completed = TRUE]
    /\ Goto(t, "finished")
    /\ UNCHANGED <<pdfVars, sys_stdout, response>>

NextGui ==
    \/ ConvertPdf
    \/ PdfStatus
    \/ \E t \in 1..MaxConversions :
          \/ SaveStdout(t)
          \/ InstallCapture(t)
          \/ RunConversion(t)
          \/ RestoreStdout(t)
          \/ SetSuccess(t)
          \/ SetOutputFile(t)
          \/ SetError(t)
          \/ SetCompleted(t)
          \/ SetRunning(t)
          \/ ExceptError(t)
          \/ ExceptRunning(t)
          \/ ExceptCompleted(t)

SpecGui == InitGui /\ [][NextGui]_vars

(***************************************************************************)
(* Properties                                                              *)
(***************************************************************************)
Scored == {i \in 1..Len(attempts) : attempts[i].outcome = "scored"}
RaisedAttempts == {i \in 1..Len(attempts) : attempts[i].outcome = "raised"}
Overall(i) == attempts[i].score.overall_score
ActiveThreshold == IF accuracy_critical THEN Rat(93, 100) ELSE Rat(85, 100)
Meets(i) == Overall(i).n * ActiveThreshold.d >= ActiveThreshold.n * Overall(i).d
LoopOver == analysis # None /\ pc \in {"after_loop", "done"}
\* the for loop was left by break, not by running out of tools
Accepted == LoopOver /\ idx <= Len(tool_order)
\* the last iteration scored a text that reaches the threshold
LastMeets == Len(attempts) \in Scored /\ Meets(Len(attempts))
Succeeded == pc = "done" /\ result.kind = "returned" /\ result.success
\* overall scores of the scored attempts, in the order of the attempts
ScoredScores ==
    LET scored == SelectSeq(attempts, LAMBDA a : a.outcome = "scored")
    IN  [i \in 1..Len(scored) |-> scored[i].score.overall_score]
NoDuplicates(s) == \A i, j \in 1..Len(s) : s[i] = s[j] => i = j
InUnit(r) == 0 <= r.n /\ r.n <= r.d

\* C1: the first scored attempt whose overall_score reaches the active threshold
\* ends the strategy loop: it is the last entry of the trace (no later strategy is
\* dispatched or scored), it is the last of tools_tried, and the loop is not resumed.
C1_EarlyExit ==
    \A i \in Scored :
        Meets(i) => /\ i = Len(attempts)
                    /\ Len(tools_tried) = i
                    /\ tools_tried[i] = attempts[i].tool
                    /\ pc \in {"after_loop", "done"}

C1_Witness ==
    /\ pc = "done"
    /\ Len(attempts) = 1
    /\ Len(tool_order) = 3
    /\ 1 \in Scored /\ Meets(1)
    /\ Adapter(tool_order[2], caps) # "continue"

\* C2: when no scored attempt reaches the threshold, the text and the score written
\* are those of a scored attempt that no other scored attempt of the run exceeds.
C2_BestOfAll ==
    (Succeeded /\ \A i \in Scored : ~Meets(i)) =>
        \E i \in Scored :
            /\ attempts[i].markdown = file.content.markdown_content
            /\ Overall(i) = file.content.extraction_confidence
            /\ \A j \in Scored : RLeq(Overall(j), Overall(i))

\* a low-scoring attempt tried first, a higher-scoring one tried later and written
C2_Witness ==
    /\ Succeeded
    /\ \A i \in Scored : ~Meets(i)
    /\ \E i, j \in Scored :
          /\ i < j
          /\ RLess(Overall(i), Overall(j))
          /\ file.content.extraction_confidence = Overall(j)

\* C3: the threshold is 0.93 in accuracy-critical mode and 0.85 otherwise; on the
\* scores 0.80, 0.90, 0.95 the default mode leaves the loop by break at the second
\* scored attempt and scores no third, the accuracy-critical mode does not break at
\* the second and breaks at the third.
C3_Thresholds ==
    /\ QualityThreshold(TRUE) = Rat(93, 100)
    /\ QualityThreshold(FALSE) = Rat(85, 100)
    /\ LET s == ScoredScores
       IN  (Len(s) >= 2 /\ s[1] = Rat(80, 100) /\ s[2] = Rat(90, 100)) =>
              IF ~accuracy_critical
                 THEN /\ Len(s) = 2
                      /\ Accepted
                      /\ attempts[Len(attempts)].outcome = "scored"
                      /\ best_score.overall_score = Rat(90, 100)
                 ELSE /\ (Len(s) = 2 /\ LoopOver => ~Accepted)
                      /\ (Len(s) >= 3 /\ s[3] = Rat(95, 100) =>
                             /\ Len(s) = 3
                             /\ Accepted
                             /\ attempts[Len(attempts)].outcome = "scored"
                             /\ best_score.overall_score = Rat(95, 100))

C3_Witness ==
    /\ accuracy_critical
    /\ Succeeded
    /\ ScoredScores = <<Rat(80, 100), Rat(90, 100), Rat(95, 100)>>
    /\ file.content.extraction_confidence = Rat(95, 100)

\* C4 as stated: whenever an adapter raised and some strategy of the run produced a
\* scored output, the run returns success=true.
C4_Original ==
    (pc = "done" /\ RaisedAttempts # {} /\ Scored # {}) => Succeeded

\* C4 amended: an adapter's exception is strategy-local.  The attempt carries no
\* score and is never the retained one, the strategies are tried in the order of
\* tool_order, and the loop ends only at an attempt that reaches the threshold or
\* with every strategy tried.  A run with a scored output reaches the output steps
\* with that output retained: it never returns "All conversion tools failed", and
\* it returns success=true unless a step after the loop raises.
C4_StrategyLocal ==
    /\ \A i \in RaisedAttempts : attempts[i].score = None /\ attempts[i].markdown = None
    /\ \A i \in 1..Len(tools_tried) : i <= Len(tool_order) /\ tools_tried[i] = tool_order[i]
    /\ LoopOver => (LastMeets \/ Len(tools_tried) = Len(tool_order))
    /\ Scored # {} =>
          /\ best_result # None
          /\ \E i \in Scored : /\ attempts[i].markdown = best_result.markdown_content
                               /\ attempts[i].score = best_score
    /\ (pc = "done" /\ Scored # {}) =>
          /\ result.kind = "returned"
          /\ result.message \in {"Successfully converted", "Conversion failed"}
          /\ result.success <=> file.state = "complete"

\* the first strategy raised, the second was scored, the run succeeded
C4_Witness ==
    /\ Succeeded
    /\ Len(attempts) >= 2
    /\ attempts[1].outcome = "raised"
    /\ attempts[2].outcome = "scored"
    /\ file.content.markdown_content = attempts[2].markdown

\* C5: a strategy loop that ends with no scored attempt makes the run return
\* (False, "All conversion tools failed", None), and no file is written.
C5_NoScoredAttempt ==
    (pc = "done" /\ analysis # None /\ Scored = {}) =>
        /\ result = Returned(FALSE, "All conversion tools failed", "None")
        /\ file = NoFile

\* every dispatched strategy raised
C5_Witness ==
    /\ pc = "done"
    /\ analysis # None
    /\ Scored = {}
    /\ Len(attempts) >= 2
    /\ \A i \in 1..Len(attempts) : attempts[i].outcome = "raised"

\* C6 as stated: a run that returns success=true has written exactly one complete
\* file, and a run that returns success=false has left no file, complete or partial.
C6_Claim ==
    (pc = "done" /\ result.kind = "returned") =>
        IF result.success THEN file.state = "complete" ELSE file.state = "absent"

\* C7: tools_tried never holds the same strategy twice, and no strategy has two
\* entries in the trace of attempts.
C7_NoStrategyTwice ==
    /\ NoDuplicates(tools_tried)
    /\ NoDuplicates([i \in 1..Len(attempts) |-> attempts[i].tool])

\* three strategies tried, the first of which raised
C7_Witness ==
    /\ pc = "done"
    /\ Len(tools_tried) = 3
    /\ attempts[1].outcome = "raised"
    /\ Len(attempts) = 3

\* C8 as stated: score_conversion returns a score for every analysis and every text,
\* the four components lie in [0,1] and overall_score is their weighted sum.
C8_Claim ==
    pc = "scored" =>
        /\ ~score.raised
        /\ InUnit(score.completeness)
        /\ InUnit(score.structure)
        /\ InUnit(score.table_integrity)
        /\ InUnit(score.readability)
        /\ InUnit(score.overall_score)
        /\ RMul(Rat(100, 1), score.overall_score)
              = RAdd(RAdd(RMul(Rat(35, 1), score.completeness),
                          RMul(Rat(20, 1), score.structure)),
                     RAdd(RMul(Rat(25, 1), score.table_integrity),
                          RMul(Rat(20, 1), score.readability)))

OcrTools == {OCR_THEN_MARKER, OCR_THEN_PYMUPDF}

FigurePages(d) == Cardinality({i \in 1..Len(d) : PageFigures(d[i]) > 0})
TablePages(d) == Cardinality({i \in 1..Len(d) : PageHasTable(d[i])})
C10_Claim ==
    analysis # None =>
        analysis.document_type =
            IF ~analysis.has_text_layer /\ analysis.figure_count > 0 THEN SCANNED
            ELSE IF 2 * FigurePages(doc) > Len(doc) THEN IMAGE_HEAVY
            ELSE IF 10 * TablePages(doc) > 3 * Len(doc) THEN TABLE_HEAVY
            ELSE IF analysis.table_count > 0 \/ analysis.figure_count > 0 THEN MIXED_LAYOUT
            ELSE TEXT_HEAVY


\* C11: _get_tool_order returns, for each document type, the preferred order of the
\* table (SCANNED: OCR then layout-aware, OCR then plain text; TEXT_HEAVY: PyMuPDF,
\* Marker, pdfplumber; TABLE_HEAVY: pdfplumber, Marker, PyMuPDF; IMAGE_HEAVY: Marker,
\* PyMuPDF, pdfplumber; MIXED_LAYOUT: Marker, pdfplumber, PyMuPDF), without
\* duplicates; a ten-page document of text_density 500 without tables or figures is
\* TEXT_HEAVY and the first strategy attempted for it is PyMuPDF.
C11_ToolOrder ==
    (analysis # None /\ pc \in {"loop", "after_loop", "done"}) =>
        /\ NoDuplicates(tool_order)
        /\ analysis.document_type = SCANNED =>
              tool_order = <<"ocr_then_marker", "ocr_then_pymupdf">>
        /\ analysis.document_type = TEXT_HEAVY =>
              tool_order = <<"pymupdf", "marker", "pdfplumber">>
        /\ analysis.document_type = TABLE_HEAVY =>
              tool_order = <<"pdfplumber", "marker", "pymupdf">>
        /\ analysis.document_type = IMAGE_HEAVY =>
              tool_order = <<"marker", "pymupdf", "pdfplumber">>
        /\ analysis.document_type = MIXED_LAYOUT =>
              tool_order = <<"marker", "pdfplumber", "pymupdf">>
        /\ (/\ analysis.page_count = 10
            /\ analysis.text_density = Rat(500, 1)
            /\ analysis.table_count = 0
            /\ analysis.figure_count = 0)
              => /\ analysis.document_type = "text_heavy"
                 /\ attempts # <<>> =>
                       /\ attempts[1].tool = "pymupdf"
                       /\ attempts[1].adapter = "convert_with_pymupdf"

\* the ten-page book is converted, PyMuPDF being the first strategy attempted
C11_Witness ==
    /\ Succeeded
    /\ analysis.page_count = 10
    /\ analysis.text_density = Rat(500, 1)
    /\ analysis.document_type = TEXT_HEAVY
    /\ attempts[1].adapter = "convert_with_pymupdf"
    /\ tools_tried[1] = PYMUPDF

\* the capability a strategy needs, as the strategy table names it
HasCapability(tool) ==
    IF tool = PYMUPDF THEN caps.PYMUPDF_AVAILABLE
    ELSE IF tool = PDFPLUMBER THEN caps.PDFPLUMBER_AVAILABLE
    ELSE IF tool = MARKER THEN caps.MARKER_AVAILABLE
    ELSE IF tool = OCR_THEN_MARKER
        THEN caps.TESSERACT_AVAILABLE /\ caps.MARKER_AVAILABLE
    ELSE caps.TESSERACT_AVAILABLE /\ caps.PYMUPDF_AVAILABLE

\* C12 as stated: a strategy whose capability is unavailable is never attempted: it
\* is not in tools_tried and no adapter is called for it, the OCR then layout-aware
\* strategy without the layout-aware capability included.
C12_Claim ==
    /\ \A i \in 1..Len(tools_tried) : HasCapability(tools_tried[i])
    /\ \A i \in 1..Len(attempts) :
          attempts[i].adapter # "continue" => HasCapability(attempts[i].tool)


\* C13 as stated: the run ends with the missing-capability diagnostic only when none
\* of the four capabilities is available; with at least one of them, PyMuPDF or
\* another, it goes on to the strategies of the document.
C13_Claim ==
    (pc = "done" /\ result.message = "Missing required dependencies") =>
        /\ ~caps.PYMUPDF_AVAILABLE
        /\ ~caps.PDFPLUMBER_AVAILABLE
        /\ ~caps.MARKER_AVAILABLE
        /\ ~caps.TESSERACT_AVAILABLE

\* C14 as stated: the recommended_tool of every analysis is a strategy whose
\* capability is available, for every document type and every capability flags.
C14_Claim ==
    analysis # None => HasCapability(analysis.recommended_tool)


\* C15 as stated: convert_pdf_to_markdown never raises, it returns a triple; a run
\* that fails returns success false with a message, no output path, and leaves no
\* output file.
C15_Claim ==
    pc = "done" =>
        /\ result.kind = "returned"
        /\ ~result.success =>
              /\ result.message # ""
              /\ result.output_path = "None"
              /\ file.state = "absent"

\* C16: best_result and best_score always belong to one and the same scored attempt;
\* a run with a scored attempt never ends on the quality of its texts (after the
\* loop the output steps are taken, and a failure is an exception of those steps),
\* also when every scored attempt is below the threshold; the extraction_confidence
\* of the file written is the overall_score of the attempt whose text is written.
C16_SameAttempt ==
    /\ (best_result = None) <=> (best_score = None)
    /\ best_result # None =>
          \E i \in Scored :
              /\ attempts[i].markdown = best_result.markdown_content
              /\ AdapterMetadata(attempts[i].adapter) = best_result.metadata
              /\ attempts[i].score = best_score
    /\ (pc = "after_loop" /\ Scored # {}) => ENABLED FinishSuccess
    /\ (pc = "done" /\ result.kind = "returned" /\ ~result.success /\ Scored # {})
          => result.message = "Conversion failed"
    /\ Succeeded =>
          \E i \in Scored :
              /\ file.content.markdown_content = attempts[i].markdown
              /\ file.content.extraction_confidence = Overall(i)

\* two scored attempts, both below the threshold, and the file is written with the
\* text and the score of the better one
C16_Witness ==
    /\ Succeeded
    /\ Cardinality(Scored) >= 2
    /\ \A i \in Scored : ~Meets(i)
    /\ \E i \in Scored :
          /\ file.content.markdown_content = attempts[i].markdown
          /\ file.content.extraction_confidence = Overall(i)
          /\ \E j \in Scored : Overall(j) # Overall(i)

\* the lines of a string, as "\n" separates them
RECURSIVE SplitLines(_)
SplitLines(s) ==
    IF \A i \in 1..Len(s) : s[i] # "\n" THEN <<s>>
    ELSE LET k == CHOOSE i \in 1..Len(s) :
                      s[i] = "\n" /\ \A j \in 1..(i - 1) : s[j] # "\n"
         IN  <<SubSeq(s, 1, k - 1)>> \o SplitLines(SubSeq(s, k + 1, Len(s)))

\* positions of the pipes of a line that no backslash precedes: its column separators
Separators(line) ==
    {i \in 1..Len(line) : line[i] = "|" /\ (i = 1 \/ line[i - 1] # "\\")}
\* pipes of a string, and those of them a backslash precedes
Pipes(s) == {i \in 1..Len(s) : s[i] = "|"}
EscapedPipes(s) == {i \in Pipes(s) : i > 1 /\ s[i - 1] = "\\"}
\* the text between the k-th column separator of a line and the next one, without
\* the space on either side
CellOf(line, k) ==
    LET lo == CHOOSE i \in Separators(line) :
                  Cardinality({j \in Separators(line) : j < i}) = k - 1
        hi == CHOOSE i \in Separators(line) :
                  Cardinality({j \in Separators(line) : j < i}) = k
    IN  SubSeq(line, lo + 2, hi - 2)
\* "| --- | ... |" with n times "---"
SeparatorLine(n) ==
    IF n = 0 THEN <<"|", " ", " ", "|">>
    ELSE <<"|">> \o Join([i \in 1..n |-> <<" ", "-", "-", "-", " ", "|">>], <<>>)

\* C17: a non-empty table is rendered as one line per row plus a separator line, the
\* second, made of one "---" per header cell; every line has the same number of
\* column separators (pipes that no backslash precedes), so every data row has as
\* many cells as the header: a short row is padded with empty cells, a long row is
\* cut; a None cell is rendered empty, and a cell rendered in column c holds no line
\* break and the pipes of its source cell, each one escaped.
C17_PipeTable ==
    (pc = "rendered" /\ table # <<>>) =>
        LET lines == SplitLines(table_markdown)
            n == Len(table[1])
        IN  /\ Len(lines) = Len(table) + 1
            /\ lines[2] = SeparatorLine(n)
            /\ \A i \in 1..Len(lines) :
                  Cardinality(Separators(lines[i])) = (IF n = 0 THEN 2 ELSE n + 1)
            /\ \A r \in 1..Len(table) : \A c \in 1..n :
                  LET cell == CellOf(lines[IF r = 1 THEN 1 ELSE r + 1], c)
                  IN  IF c > Len(table[r]) \/ table[r][c] = None
                         THEN cell = <<>>
                         ELSE /\ Pipes(cell) = EscapedPipes(cell)
                              /\ Cardinality(Pipes(cell))
                                    = Cardinality(Pipes(table[r][c].chars))

\* a table whose data row is shorter than its header and holds a None cell, and
\* whose header holds a cell with a pipe and a line break, has been rendered
C17_Witness ==
    /\ pc = "rendered"
    /\ Len(table) = 2
    /\ Len(table[1]) = 2
    /\ Len(table[2]) = 1
    /\ table[2][1] = None
    /\ table[1][1] = Text(<<"2", "|", "3", "\n", "4">>)
    /\ table_markdown =
          <<"|", " ", "2", "\\", "|", "3", " ", "4", " ", "|", " ",
                 "\\", "\\", "|", " ", "|", "\n",
            "|", " ", "-", "-", "-", " ", "|", " ", "-", "-", "-", " ", "|", "\n",
            "|", " ", " ", "|", " ", " ", "|">>

\* C18: the attempt retained as best is the first of the scored attempts that have
\* the greatest overall_score so far: every earlier scored attempt has a strictly
\* smaller score, so an attempt that only equals the best score replaces nothing.
C18_TiesKeepEarlier ==
    best_result # None =>
        \E i \in Scored :
            /\ attempts[i].markdown = best_result.markdown_content
            /\ AdapterMetadata(attempts[i].adapter) = best_result.metadata
            /\ attempts[i].score = best_score
            /\ \A j \in Scored :
                  /\ j < i => RLess(Overall(j), Overall(i))
                  /\ j > i => RLeq(Overall(j), Overall(i))

\* two attempts of different adapters have the same, greatest, overall_score, and
\* the attempt retained and written is the earlier one
C18_Witness ==
    /\ Succeeded
    /\ \E i, j \in Scored :
          /\ i < j
          /\ Overall(i) = Overall(j)
          /\ \A k \in Scored : RLeq(Overall(k), Overall(i))
          /\ attempts[i].adapter # attempts[j].adapter
          /\ best_result.metadata = AdapterMetadata(attempts[i].adapter)
          /\ file.content.markdown_content = attempts[i].markdown

\* C19 as stated: every attempt whose adapter returned a text, the empty text
\* included, is scored and compared with the best attempt; only an attempt whose
\* adapter raised is left without a score.
C19_Claim ==
    \A i \in 1..Len(attempts) :
        (attempts[i].adapter # "continue" /\ attempts[i].outcome # "raised") =>
            /\ attempts[i].outcome = "scored"
            /\ attempts[i].score # None
            /\ best_score # None
            /\ RLeq(Overall(i), best_score.overall_score)

\* C20 as stated: table_integrity is 1 when table_count is 0, else the smaller of 1
\* and (pipeRowCount / 3) / table_count; the table-shortfall issue is recorded
\* exactly when pipeRowCount / 3 is below table_count.
C20_Original ==
    (pc = "scored" /\ ~score.raised) =>
        LET table_count == analysis.table_count
            pipeRowCount == markdown_output.table_markers
        IN  /\ table_count = 0 => score.table_integrity = One
            /\ table_count > 0 =>
                  score.table_integrity =
                      IF pipeRowCount >= 3 * table_count THEN One
                      ELSE Rat(pipeRowCount, 3 * table_count)
            /\ "tables_missing" \in Range(score.issues)
                  <=> (table_count > 0 /\ pipeRowCount < 3 * table_count)

\* C20, amended: the estimate of the extracted tables is the whole number of threes
\* in pipeRowCount (pipeRowCount // 3); table_integrity is 1 when table_count is 0,
\* else the smaller of 1 and that number divided by table_count; the table-shortfall
\* issue is recorded exactly when that number is below table_count.
C20_TableIntegrity ==
    (pc = "scored" /\ ~score.raised) =>
        LET table_count == analysis.table_count
            extracted_tables == markdown_output.table_markers \div 3
        IN  /\ table_count = 0 => score.table_integrity = One
            /\ table_count > 0 =>
                  score.table_integrity =
                      IF extracted_tables >= table_count THEN One
                      ELSE Rat(extracted_tables, table_count)
            /\ "tables_missing" \in Range(score.issues)
                  <=> (table_count > 0 /\ extracted_tables < table_count)

\* a text with two pipe rows scored against a document with one table: no table is
\* counted as extracted, table_integrity is 0 and the issue is recorded
C20_Witness ==
    /\ pc = "scored"
    /\ ~score.raised
    /\ analysis.table_count = 1
    /\ markdown_output.table_markers = 2
    /\ score.table_integrity = Zero
    /\ "tables_missing" \in Range(score.issues)

\* C21 as stated: a figure of a page on which a caption is printed gets the number
\* of that caption as its reference and the caption's text as its title; a figure
\* of a page without a caption gets the reference of its page number and the
\* generic title, whatever captions the other pages hold.
C21_Claim ==
    pc = "figures_done" =>
        \A i \in 1..Len(figure_blocks) :
            LET page == figures[i].page + 1
                caption == doc[page].caption
            IN  IF caption # None
                   THEN /\ figure_blocks[i].ref = caption.number
                        /\ figure_blocks[i].title = caption.title
                   ELSE /\ figure_blocks[i].ref = page
                        /\ figure_blocks[i].title = "Untitled Figure"

\* C22 as stated: analyze_pdf raises, and the run is aborted in its analysis step,
\* only when the document cannot be opened; a page that cannot be read does not
\* abort the run.
C22_Claim ==
    (pc = "done" /\ "cause" \in DOMAIN result) => result.cause = "open_fails"

\* a page triggers the multi-column test: some pair of its text blocks overlaps
\* vertically and is more than 50 units apart horizontally
Triggers(text_blocks) ==
    \E i, j \in 1..Len(text_blocks) :
        /\ i # j
        /\ text_blocks[i][2] < text_blocks[j][4]
        /\ text_blocks[j][2] < text_blocks[i][4]
        /\ text_blocks[i][3] + 50 < text_blocks[j][1]

\* C23 as stated: is_multi_column holds exactly when the sampled pages that trigger
\* the multi-column test are more than 30% of the sampled pages; a sampled page
\* counts at most once, so the count is at most the number of sampled pages, itself
\* at most 5.
C23_Claim ==
    pc = "columns_done" =>
        LET sampled == {i \in 1..Len(doc) : (i - 1) \in analysis.sample_pages}
            triggered == {i \in sampled : Triggers(doc[i])}
        IN  /\ Cardinality(analysis.sample_pages) <= 5
            /\ analysis.multi_column_pages <= Cardinality(analysis.sample_pages)
            /\ analysis.multi_column_pages = Cardinality(triggered)
            /\ analysis.is_multi_column
                  <=> 10 * Cardinality(triggered) > 3 * Cardinality(sampled)

\* the scored attempt that is retained as best: the first of those with the
\* greatest overall_score
Retained(i) ==
    /\ i \in Scored
    /\ \A j \in Scored :
          /\ j < i => RLess(Overall(j), Overall(i))
          /\ j > i => RLeq(Overall(j), Overall(i))

\* C24 as stated: on a successful run the extraction_tool of the frontmatter is the
\* strategy of the retained best attempt, whose text and score are written.
C24_Claim ==
    Succeeded =>
        \A i \in 1..Len(attempts) :
            Retained(i) =>
                /\ file.content.markdown_content = attempts[i].markdown
                /\ file.content.extraction_confidence = Overall(i)
                /\ file.content.extraction_tool = attempts[i].tool

\* C25: the best score is at every point the greatest of the scores seen so far, so
\* it never decreases; when the loop is left because the last attempt reached the
\* threshold, every earlier scored attempt is below the threshold and below that
\* attempt, and the retained best attempt is that very attempt.
C25_AcceptedIsBest ==
    /\ best_score # None =>
          \A j \in Scored : RLeq(Overall(j), best_score.overall_score)
    /\ (LoopOver /\ LastMeets) =>
          LET last == Len(attempts)
          IN  /\ best_result.markdown_content = attempts[last].markdown
              /\ best_result.metadata = AdapterMetadata(attempts[last].adapter)
              /\ best_score = attempts[last].score
              /\ \A j \in Scored \ {last} :
                    /\ ~Meets(j)
                    /\ RLess(Overall(j), Overall(last))

\* the loop is left at the third attempt, which reaches the threshold after two
\* scored attempts below it, and its text is the one written
C25_Witness ==
    /\ Succeeded
    /\ LastMeets
    /\ Len(attempts) = 3
    /\ Scored = {1, 2, 3}
    /\ Overall(1) # Overall(2)
    /\ file.content.markdown_content = attempts[3].markdown
    /\ file.content.extraction_confidence = Overall(3)

\* C26: a scored text without a heading line has structure 0 and an overall_score
\* of at most 0.80, below both thresholds; the loop is never left by the break on
\* such an attempt, and such a text is written only when every strategy of the
\* order has been gone through.
C26_NoHeading ==
    \A i \in Scored :
        attempts[i].markdown.headers = 0 =>
            /\ attempts[i].score.structure = Zero
            /\ RLeq(Overall(i), Rat(80, 100))
            /\ RLess(Overall(i), Rat(85, 100))
            /\ RLess(Overall(i), Rat(93, 100))
            /\ ~Meets(i)
            /\ (LoopOver /\ i = Len(attempts)) => idx > Len(tool_order)
            /\ (Succeeded /\ file.content.markdown_content = attempts[i].markdown)
                  => Len(tools_tried) = Len(tool_order)

\* a text without a heading line scores exactly 0.80, the next strategy is tried
\* after it, and it is written as the best of an exhausted order
C26_Witness ==
    /\ Succeeded
    /\ 1 \in Scored
    /\ attempts[1].markdown.headers = 0
    /\ Overall(1) = Rat(80, 100)
    /\ Len(attempts) = Len(tool_order)
    /\ Len(attempts) > 1
    /\ file.content.markdown_content = attempts[1].markdown
    /\ file.content.extraction_confidence = Rat(80, 100)

\* C27: for a SCANNED document both strategies of the order are dispatched to
\* convert_with_ocr, and exactly when the OCR capability is available; when the
\* second attempt returns the text of the first it gets the same score, and the
\* attempt retained, and written, is the first.
C27_SameOcrAdapter ==
    (analysis # None /\ analysis.document_type = SCANNED) =>
        /\ \A i \in 1..Len(attempts) :
              /\ attempts[i].tool = <<OCR_THEN_MARKER, OCR_THEN_PYMUPDF>>[i]
              /\ attempts[i].adapter =
                    IF caps.TESSERACT_AVAILABLE THEN "convert_with_ocr" ELSE "continue"
        /\ (Scored = {1, 2} /\ attempts[1].markdown = attempts[2].markdown) =>
              /\ attempts[2].score = attempts[1].score
              /\ best_score = attempts[1].score
              /\ best_result = [markdown_content |-> attempts[1].markdown,
                                metadata |-> [extraction_tool |-> "ocr_pytesseract"]]
              /\ Succeeded =>
                    /\ file.content.markdown_content = attempts[1].markdown
                    /\ file.content.extraction_confidence = Overall(1)

\* a SCANNED document without the layout-aware capability: both OCR strategies ran
\* convert_with_ocr, returned the same text, and the text of the first is written
C27_Witness ==
    /\ Succeeded
    /\ analysis.document_type = SCANNED
    /\ ~caps.MARKER_AVAILABLE
    /\ Scored = {1, 2}
    /\ attempts[1].adapter = "convert_with_ocr"
    /\ attempts[2].adapter = "convert_with_ocr"
    /\ attempts[1].markdown = attempts[2].markdown
    /\ file.content.markdown_content = attempts[1].markdown

\* C28 as stated: on a successful run the figures_extracted of the frontmatter is
\* the number of figure blocks appended under the Figures section, for every
\* number of detected figures, more than 20 included.
C28_Claim ==
    Succeeded => file.content.figures_extracted = file.content.figure_blocks
\* what /pdf_status shows of conversion t once it is over
ResultOf(t) ==
    LET r == threads[t].returned
    IN  IF r.raised
           THEN [success |-> FALSE, output_file |-> None, error |-> r.message]
           ELSE [success |-> r.success, output_file |-> r.output_path,
                 error |-> IF r.success THEN None ELSE r.message]

Reported(st) == [success |-> st.success, output_file |-> st.output_file, error |-> st.error]

AllFinished == Len(threads) > 0 /\ \A t \in 1..Len(threads) : threads[t].pc = "finished"

\* C29: whenever an answer of /pdf_status has completed = true, its success,
\* output_file and error are the result of the conversion started by the /convert_pdf
\* request that was the most recent one when the answer was made
C29_Claim ==
    (response # None /\ response.status.completed) =>
        /\ response.latest > 0
        /\ threads[response.latest].returned # None
        /\ Reported(response.status) = ResultOf(response.latest)

\* C30: once every conversion thread has finished, by return or by exception,
\* sys.stdout is the stream that was installed before the first conversion started
C30_Claim == AllFinished => sys_stdout = Original

====
